---- MODULE Spec2Model ----
(***************************************************************************)
(* Model of sqs-monitor: the controller (src/app.rs, struct App) and the   *)
(* scheduler loop (src/main.rs, run_app).                                  *)
(*                                                                         *)
(* The controller is one record, `app`, with the fields of struct App.     *)
(* Its field sqs_client models the queue service client as the sequence of *)
(* calls made during the current step of the loop, each with the answer of *)
(* the service; the answers are inputs of the actions.  Option<T> is a     *)
(* sequence of length at most one.  Indices are 0-based as in the source.  *)
(***************************************************************************)
EXTENDS Integers, Sequences, FiniteSets, TLC

VARIABLES
    app,                \* struct App (app.rs:7-20)
    last_auto_refresh,  \* main.rs:34, the Instant baseline of the auto-refresh
    now,                \* the clock read by Utc::now() and Instant::now()
    pc,                 \* position of run_app / main
    event,              \* the result of the last poll_event (main.rs:60)
    purge_target,       \* the (url, name) bound at main.rs:95
    prompted            \* history: the queue_name formatted into the prompt of
                        \* the last confirmation (app.rs:155-160), recorded by
                        \* Spec_History only and kept until the screen is drawn
                        \* with no confirmation pending

vars == <<app, last_auto_refresh, now, pc, event, purge_target, prompted>>

----------------------------------------------------------------------------
(* Bounds *)

MaxLen == 2        \* longest sequence the service returns
MaxTime == 30      \* the clock stops here
TickStep == 15     \* seconds the clock advances in one Tick

(* Program constants *)

refresh_interval == 30     \* app.rs:31  Duration::from_secs(30)

Names == {"a", "b", "c"}

\* values of ApproximateNumberOfMessages: an empty and a non-empty queue
Counts == {0, 1}

\* A queue URL is its path; list_queues serves one account.
Urls == {<<"acct", n>> : n \in Names}

\* sqs.rs:64  url.rsplit('/').next()
name_of(url) == url[Len(url)]

\* sqs.rs:31-74 get_queue_info: the fields the controller reads
QueueInfo(url, n) == [url |-> url, name |-> name_of(url), approximate_messages |-> n]

QueueInfos == {QueueInfo(u, n) : u \in Urls, n \in Counts}

\* what list_queues can return on success: one entry per URL of the account
QueueLists ==
    UNION {{s \in [1..n -> QueueInfos] :
              \A i, j \in 1..n : i # j => s[i].url # s[j].url} : n \in 0..MaxLen}

\* Err(e) of list_queues
NotListed == [ok |-> FALSE, queues |-> <<>>]

\* Result<Vec<QueueInfo>> of list_queues
ListResults ==
    {NotListed} \cup {[ok |-> TRUE, queues |-> q] : q \in QueueLists}

\* QueueDetails of the queue at url (types.rs:15-24); the ARN names the queue
QueueDetails(url) == [arn |-> url]

AppEvents == {"Quit", "Refresh", "NextQueue", "PreviousQueue", "ToggleFilter",
              "PurgeQueue", "ConfirmPurge", "CancelPurge"}

----------------------------------------------------------------------------
(* status_message: the format string used, and its arguments *)

Msg(text) == [text |-> text, name |-> "", shown |-> 0, total |-> 0]
MsgName(text, name) == [text |-> text, name |-> name, shown |-> 0, total |-> 0]
MsgCount(text, shown, total) == [text |-> text, name |-> "", shown |-> shown, total |-> total]

----------------------------------------------------------------------------
(* The queue service client: the call is recorded with its answer *)

Send(self, op, url, ok, queues) ==
    [self EXCEPT !.sqs_client = Append(@, [op |-> op, url |-> url, ok |-> ok, queues |-> queues])]

NoRequests(self) == [self EXCEPT !.sqs_client = <<>>]

----------------------------------------------------------------------------
(* The controller, app.rs *)

\* App::new
New ==
    [queues |-> <<>>,
     all_queues |-> <<>>,
     selected_index |-> 0,
     selected_details |-> <<>>,
     last_refresh |-> <<>>,
     status_message |-> Msg("Initializing..."),
     should_quit |-> FALSE,
     filter_non_empty |-> FALSE,
     awaiting_purge_confirmation |-> FALSE,
     purge_in_progress |-> FALSE,
     sqs_client |-> <<>>]

\* mutant: equal counts compare as Less, which reverses ties
ComesBefore_OrEqual(a, b) == b.approximate_messages <= a.approximate_messages

\* the comparator of app.rs:47: Less when b.cmp(a) is Less, i.e. b < a
ComesBefore(a, b) == b.approximate_messages < a.approximate_messages

RECURSIVE InsertSorted(_, _)
\* q goes behind every element that does not come after it (stable)
InsertSorted(sorted, q) ==
    IF sorted = <<>> THEN <<q>>
    ELSE IF ComesBefore(q, sorted[Len(sorted)])
         THEN Append(InsertSorted(SubSeq(sorted, 1, Len(sorted) - 1), q), sorted[Len(sorted)])
         ELSE Append(sorted, q)

RECURSIVE sort_by(_)
\* Vec::sort_by, a stable sort
sort_by(v) ==
    IF v = <<>> THEN <<>>
    ELSE InsertSorted(sort_by(SubSeq(v, 1, Len(v) - 1)), v[Len(v)])

\* mutant: the filter flag is ignored
apply_filter_Unfiltered(self) == [self EXCEPT !.queues = self.all_queues]

\* app.rs:141-152
apply_filter(self) ==
    IF self.filter_non_empty
    THEN [self EXCEPT !.queues = SelectSeq(self.all_queues, LAMBDA q : q.approximate_messages > 0)]
    ELSE [self EXCEPT !.queues = self.all_queues]

\* app.rs:116-118  Option<&QueueInfo>
selected_queue(self) ==
    IF self.selected_index < Len(self.queues)
    THEN <<self.queues[self.selected_index + 1]>>
    ELSE <<>>

\* mutant: the selection is never reset
reset_selection_Never(self) == self

\* app.rs:65-67 and 125-127
reset_selection(self) ==
    IF self.selected_index >= Len(self.queues) /\ self.queues # <<>>
    THEN [self EXCEPT !.selected_index = 0]
    ELSE self

\* app.rs:82-94; detailsOk is the answer of get_queue_details
refresh_selected_details(self, detailsOk) ==
    IF selected_queue(self) # <<>>
    THEN LET queue == selected_queue(self)[1]
             s1 == Send(self, "get_queue_details", queue.url, detailsOk, <<>>)
         IN IF detailsOk
            THEN [s1 EXCEPT !.selected_details = <<QueueDetails(queue.url)>>]
            ELSE [s1 EXCEPT !.status_message = Msg("Error fetching details: {}")]
    ELSE self

\* mutant: the details are fetched before the selection is reset
refresh_queues_Ok_FetchBeforeReset(self, queues, detailsOk, t) ==
    LET s3 == apply_filter([self EXCEPT !.all_queues = sort_by(queues)])
        s4 == [s3 EXCEPT !.last_refresh = <<t>>]
        s5 == [s4 EXCEPT !.status_message =
                  IF s4.filter_non_empty
                  THEN MsgCount("Connected to AWS | {} of {} queues (non-empty only)",
                                Len(s4.queues), Len(s4.all_queues))
                  ELSE MsgCount("Connected to AWS | {} queues found",
                                Len(s4.all_queues), Len(s4.all_queues))]
        s6 == IF s5.queues # <<>>
              THEN refresh_selected_details(s5, detailsOk)
              ELSE s5
    IN reset_selection(s6)

\* app.rs:45-73, the Ok arm of refresh_queues; queues is the Vec returned
refresh_queues_Ok(self, queues, detailsOk, t) ==
    LET s3 == apply_filter([self EXCEPT !.all_queues = sort_by(queues)])
        s4 == [s3 EXCEPT !.last_refresh = <<t>>]
        s5 == [s4 EXCEPT !.status_message =
                  IF s4.filter_non_empty
                  THEN MsgCount("Connected to AWS | {} of {} queues (non-empty only)",
                                Len(s4.queues), Len(s4.all_queues))
                  ELSE MsgCount("Connected to AWS | {} queues found",
                                Len(s4.all_queues), Len(s4.all_queues))]
        s6 == reset_selection(s5)
    IN IF s6.queues # <<>> /\ s6.selected_index < Len(s6.queues)
       THEN refresh_selected_details(s6, detailsOk)
       ELSE s6

\* mutant: last_refresh is set before the answer of list_queues is examined
refresh_queues_StampsFailure(self, listed, detailsOk, t) ==
    LET s1 == [self EXCEPT !.status_message = Msg("Refreshing queues...")]
        s2 == Send(s1, "list_queues", <<>>, listed.ok, listed.queues)
    IN IF listed.ok
       THEN refresh_queues_Ok(s2, listed.queues, detailsOk, t)
       ELSE [s2 EXCEPT !.status_message = Msg("Error: {}"), !.last_refresh = <<t>>]

\* app.rs:41-80; listed is the answer of list_queues, t the value of Utc::now()
refresh_queues(self, listed, detailsOk, t) ==
    LET s1 == [self EXCEPT !.status_message = Msg("Refreshing queues...")]
        s2 == Send(s1, "list_queues", <<>>, listed.ok, listed.queues)
    IN IF listed.ok
       THEN refresh_queues_Ok(s2, listed.queues, detailsOk, t)
       ELSE [s2 EXCEPT !.status_message = Msg("Error: {}")]

\* mutant: the index is advanced without the modulo
next_queue_NoWrap(self) ==
    IF self.queues # <<>>
    THEN [self EXCEPT !.selected_index = self.selected_index + 1]
    ELSE self

\* app.rs:96-100
next_queue(self) ==
    IF self.queues # <<>>
    THEN [self EXCEPT !.selected_index = (self.selected_index + 1) % Len(self.queues)]
    ELSE self

\* app.rs:102-110
previous_queue(self) ==
    IF self.queues # <<>>
    THEN IF self.selected_index > 0
         THEN [self EXCEPT !.selected_index = self.selected_index - 1]
         ELSE [self EXCEPT !.selected_index = Len(self.queues) - 1]
    ELSE self

\* app.rs:112-114
quit(self) == [self EXCEPT !.should_quit = TRUE]

\* mutant: the selection is reset whenever the filter is toggled
toggle_filter_ResetsSelection(self) ==
    LET s1 == apply_filter([self EXCEPT !.filter_non_empty = ~self.filter_non_empty])
        s2 == [s1 EXCEPT !.selected_index = 0]
    IN [s2 EXCEPT !.status_message =
           IF s2.filter_non_empty
           THEN MsgCount("Filter: ON | {} of {} queues (non-empty only)",
                         Len(s2.queues), Len(s2.all_queues))
           ELSE MsgCount("Filter: OFF | {} queues shown",
                         Len(s2.all_queues), Len(s2.all_queues))]

\* app.rs:120-139
toggle_filter(self) ==
    LET s1 == apply_filter([self EXCEPT !.filter_non_empty = ~self.filter_non_empty])
        s2 == reset_selection(s1)
    IN [s2 EXCEPT !.status_message =
           IF s2.filter_non_empty
           THEN MsgCount("Filter: ON | {} of {} queues (non-empty only)",
                         Len(s2.queues), Len(s2.all_queues))
           ELSE MsgCount("Filter: OFF | {} queues shown",
                         Len(s2.all_queues), Len(s2.all_queues))]

\* mutant: the confirmation is requested whether or not a queue is selected
request_purge_confirmation_Unchecked(self) ==
    [self EXCEPT !.awaiting_purge_confirmation = TRUE,
                 !.status_message =
                     MsgName("Purge queue '{}'? Press Y to confirm, N to cancel",
                             IF selected_queue(self) # <<>>
                             THEN selected_queue(self)[1].name ELSE "")]

\* app.rs:154-162
request_purge_confirmation(self) ==
    IF selected_queue(self) # <<>>
    THEN [self EXCEPT !.awaiting_purge_confirmation = TRUE,
                      !.status_message =
                          MsgName("Purge queue '{}'? Press Y to confirm, N to cancel",
                                  selected_queue(self)[1].name)]
    ELSE self

\* mutant: the confirmation flag is not cleared
begin_purge_StaysAwaiting(self) ==
    IF selected_queue(self) # <<>>
    THEN LET queue == selected_queue(self)[1]
         IN [self |-> [self EXCEPT !.purge_in_progress = TRUE,
                                   !.status_message = MsgName("Purging queue '{}'...", queue.name)],
             ret |-> <<[url |-> queue.url, name |-> queue.name]>>]
    ELSE [self |-> self, ret |-> <<>>]

\* mutant: with no queue selected nothing is written, the flag stays raised
begin_purge_KeepsPending(self) ==
    LET s1 == [self EXCEPT !.awaiting_purge_confirmation = FALSE]
    IN IF selected_queue(s1) # <<>>
       THEN LET queue == selected_queue(s1)[1]
            IN [self |-> [s1 EXCEPT !.purge_in_progress = TRUE,
                                    !.status_message = MsgName("Purging queue '{}'...", queue.name)],
                ret |-> <<[url |-> queue.url, name |-> queue.name]>>]
       ELSE [self |-> self, ret |-> <<>>]

\* app.rs:164-177; ret is the Option<(String, String)> returned
begin_purge(self) ==
    LET s1 == [self EXCEPT !.awaiting_purge_confirmation = FALSE]
    IN IF selected_queue(s1) # <<>>
       THEN LET queue == selected_queue(s1)[1]
            IN [self |-> [s1 EXCEPT !.purge_in_progress = TRUE,
                                    !.status_message = MsgName("Purging queue '{}'...", queue.name)],
                ret |-> <<[url |-> queue.url, name |-> queue.name]>>]
       ELSE [self |-> s1, ret |-> <<>>]

\* the status messages of execute_purge, app.rs:182 and 187
Purged(self, queue_name) ==
    [self EXCEPT !.status_message = MsgName("Queue '{}' purged successfully", queue_name)]

PurgeFailed(self, queue_name) ==
    [self EXCEPT !.status_message = MsgName("Failed to purge queue '{}': {}", queue_name)]

\* mutant: the queues are refreshed after a failed purge too
execute_purge_RefreshesAlways(self, queue_url, queue_name, purgeOk, listed, detailsOk, t) ==
    LET s1 == Send(self, "purge_queue", queue_url, purgeOk, <<>>)
        s2 == IF purgeOk
              THEN refresh_queues(Purged(s1, queue_name), listed, detailsOk, t)
              ELSE refresh_queues(PurgeFailed(s1, queue_name), listed, detailsOk, t)
    IN [s2 EXCEPT !.purge_in_progress = FALSE]

\* mutant: purge_in_progress is cleared in the Ok arm only
execute_purge_KeepsFlagOnError(self, queue_url, queue_name, purgeOk, listed, detailsOk, t) ==
    LET s1 == Send(self, "purge_queue", queue_url, purgeOk, <<>>)
    IN IF purgeOk
       THEN [refresh_queues(Purged(s1, queue_name), listed, detailsOk, t)
                EXCEPT !.purge_in_progress = FALSE]
       ELSE PurgeFailed(s1, queue_name)

\* app.rs:179-193; purgeOk is the answer of purge_queue
execute_purge(self, queue_url, queue_name, purgeOk, listed, detailsOk, t) ==
    LET s1 == Send(self, "purge_queue", queue_url, purgeOk, <<>>)
        s2 == IF purgeOk
              THEN refresh_queues(Purged(s1, queue_name), listed, detailsOk, t)
              ELSE PurgeFailed(s1, queue_name)
    IN [s2 EXCEPT !.purge_in_progress = FALSE]

\* mutant: the flag is left set
cancel_purge_KeepsFlag(self) == [self EXCEPT !.status_message = Msg("Purge cancelled")]

\* app.rs:195-198
cancel_purge(self) ==
    [self EXCEPT !.awaiting_purge_confirmation = FALSE,
                 !.status_message = Msg("Purge cancelled")]

----------------------------------------------------------------------------
(* main and the scheduler loop, main.rs *)

Init ==
    /\ app = New
    /\ last_auto_refresh = 0
    /\ now = 0
    /\ pc = "initial_refresh"
    /\ event = "None"
    /\ purge_target = <<>>
    /\ prompted = <<>>

\* main.rs:31-34
InitialRefresh ==
    /\ pc = "initial_refresh"
    /\ \E listed \in ListResults, detailsOk \in BOOLEAN :
          app' = refresh_queues(NoRequests(app), listed, detailsOk, now)
    /\ last_auto_refresh' = now
    /\ pc' = "draw"
    /\ UNCHANGED <<now, event, purge_target, prompted>>

\* main.rs:51  terminal.draw(..)?
Draw ==
    /\ pc = "draw"
    /\ app' = NoRequests(app)
    /\ event' = "None"
    /\ pc' = "auto_refresh"
    /\ UNCHANGED <<last_auto_refresh, now, purge_target, prompted>>

\* Draw, forgetting the recorded prompt once no confirmation is pending
Draw_History ==
    /\ pc = "draw"
    /\ app' = NoRequests(app)
    /\ event' = "None"
    /\ pc' = "auto_refresh"
    /\ prompted' = IF app.awaiting_purge_confirmation THEN prompted ELSE <<>>
    /\ UNCHANGED <<last_auto_refresh, now, purge_target>>

\* main.rs:51 and 97: the draw fails and `?` returns the error
DrawError ==
    /\ pc \in {"draw", "purge_draw"}
    /\ app' = NoRequests(app)
    /\ event' = "None"
    /\ pc' = "failed"
    /\ UNCHANGED <<last_auto_refresh, now, purge_target, prompted>>

\* mutant: the comparison is strict
interval_elapsed_Strict == now - last_auto_refresh > refresh_interval

\* mutant: a refresh that failed is tried again at the next iteration
interval_elapsed_OrAfterError ==
    \/ now - last_auto_refresh >= refresh_interval
    \/ app.status_message = Msg("Error: {}")

\* main.rs:54  last_auto_refresh.elapsed() >= app.refresh_interval
interval_elapsed == now - last_auto_refresh >= refresh_interval

\* main.rs:54-57, the interval has elapsed
AutoRefresh ==
    /\ pc = "auto_refresh"
    /\ interval_elapsed
    /\ \E listed \in ListResults, detailsOk \in BOOLEAN :
          app' = refresh_queues(NoRequests(app), listed, detailsOk, now)
    /\ last_auto_refresh' = now
    /\ pc' = "poll_event"
    /\ UNCHANGED <<now, event, purge_target, prompted>>

\* main.rs:54, the interval has not elapsed
NoAutoRefresh ==
    /\ pc = "auto_refresh"
    /\ ~interval_elapsed
    /\ app' = NoRequests(app)
    /\ pc' = "poll_event"
    /\ UNCHANGED <<last_auto_refresh, now, event, purge_target, prompted>>

\* mutant: an Err of the service is returned through the `?` of the handler
LoopEnd_StopsOnError(self) ==
    IF self.should_quit THEN "done"
    ELSE IF \E i \in 1..Len(self.sqs_client) : ~self.sqs_client[i].ok THEN "failed"
    ELSE "draw"

\* main.rs:111-113, the end of an iteration
LoopEnd(self) == IF self.should_quit THEN "done" ELSE "draw"

\* main.rs:60  poll_event timed out or the key maps to no event
PollNone ==
    /\ pc = "poll_event"
    /\ event' = "None"
    /\ app' = NoRequests(app)
    /\ pc' = LoopEnd(app')
    /\ UNCHANGED <<last_auto_refresh, now, purge_target, prompted>>

\* main.rs:60  poll_event(..)? returns the error
PollError ==
    /\ pc = "poll_event"
    /\ event' = "None"
    /\ app' = NoRequests(app)
    /\ pc' = "failed"
    /\ UNCHANGED <<last_auto_refresh, now, purge_target, prompted>>

\* mutant: Quit is swallowed while a confirmation is pending, as the other arms
OnQuit_Gated ==
    /\ pc = "poll_event"
    /\ event' = "Quit"
    /\ IF ~app.awaiting_purge_confirmation
       THEN app' = quit(NoRequests(app))
       ELSE app' = NoRequests(app)
    /\ pc' = LoopEnd(app')
    /\ UNCHANGED <<last_auto_refresh, now, purge_target, prompted>>

\* main.rs:62-65
OnQuit ==
    /\ pc = "poll_event"
    /\ event' = "Quit"
    /\ app' = quit(NoRequests(app))
    /\ pc' = "done"
    /\ UNCHANGED <<last_auto_refresh, now, purge_target, prompted>>

\* main.rs:66-69
OnRefresh ==
    /\ pc = "poll_event"
    /\ event' = "Refresh"
    /\ \E listed \in ListResults, detailsOk \in BOOLEAN :
          app' = refresh_queues(NoRequests(app), listed, detailsOk, now)
    /\ last_auto_refresh' = now
    /\ pc' = LoopEnd(app')
    /\ UNCHANGED <<now, purge_target, prompted>>

\* main.rs:70-75
OnNextQueue ==
    /\ pc = "poll_event"
    /\ event' = "NextQueue"
    /\ IF ~app.awaiting_purge_confirmation
       THEN \E detailsOk \in BOOLEAN :
               app' = refresh_selected_details(next_queue(NoRequests(app)), detailsOk)
       ELSE app' = NoRequests(app)
    /\ pc' = LoopEnd(app')
    /\ UNCHANGED <<last_auto_refresh, now, purge_target, prompted>>

\* main.rs:76-81
OnPreviousQueue ==
    /\ pc = "poll_event"
    /\ event' = "PreviousQueue"
    /\ IF ~app.awaiting_purge_confirmation
       THEN \E detailsOk \in BOOLEAN :
               app' = refresh_selected_details(previous_queue(NoRequests(app)), detailsOk)
       ELSE app' = NoRequests(app)
    /\ pc' = LoopEnd(app')
    /\ UNCHANGED <<last_auto_refresh, now, purge_target, prompted>>

\* main.rs:82-87
OnToggleFilter ==
    /\ pc = "poll_event"
    /\ event' = "ToggleFilter"
    /\ IF ~app.awaiting_purge_confirmation
       THEN \E detailsOk \in BOOLEAN :
               app' = refresh_selected_details(toggle_filter(NoRequests(app)), detailsOk)
       ELSE app' = NoRequests(app)
    /\ pc' = LoopEnd(app')
    /\ UNCHANGED <<last_auto_refresh, now, purge_target, prompted>>

\* main.rs:88-92
OnPurgeQueue ==
    /\ pc = "poll_event"
    /\ event' = "PurgeQueue"
    /\ IF ~app.awaiting_purge_confirmation
       THEN app' = request_purge_confirmation(NoRequests(app))
       ELSE app' = NoRequests(app)
    /\ pc' = LoopEnd(app')
    /\ UNCHANGED <<last_auto_refresh, now, purge_target, prompted>>

\* OnPurgeQueue, recording the name that request_purge_confirmation formats
\* into the prompt (app.rs:155-160)
OnPurgeQueue_History ==
    /\ pc = "poll_event"
    /\ event' = "PurgeQueue"
    /\ IF ~app.awaiting_purge_confirmation
       THEN app' = request_purge_confirmation(NoRequests(app))
       ELSE app' = NoRequests(app)
    /\ pc' = LoopEnd(app')
    /\ prompted' = IF app'.awaiting_purge_confirmation /\ ~app.awaiting_purge_confirmation
                   THEN <<app'.status_message.name>>
                   ELSE prompted
    /\ UNCHANGED <<last_auto_refresh, now, purge_target>>

\* mutant: the check of main.rs:94 is missing
OnConfirmPurge_Ungated ==
    /\ pc = "poll_event"
    /\ event' = "ConfirmPurge"
    /\ LET r == begin_purge(NoRequests(app))
       IN /\ app' = r.self
          /\ purge_target' = r.ret
          /\ IF r.ret # <<>>
             THEN /\ pc' = "purge_draw"
                  /\ UNCHANGED last_auto_refresh
             ELSE /\ pc' = LoopEnd(app')
                  /\ last_auto_refresh' = now
    /\ UNCHANGED <<now, prompted>>

\* mutant: the purge is executed without the draw of main.rs:97
OnConfirmPurge_ExecutesBeforeDraw ==
    /\ pc = "poll_event"
    /\ event' = "ConfirmPurge"
    /\ IF app.awaiting_purge_confirmation
       THEN LET r == begin_purge(NoRequests(app))
            IN /\ app' = r.self
               /\ purge_target' = r.ret
               /\ IF r.ret # <<>>
                  THEN /\ pc' = "execute_purge"
                       /\ UNCHANGED last_auto_refresh
                  ELSE /\ pc' = LoopEnd(app')
                       /\ last_auto_refresh' = now
       ELSE /\ app' = NoRequests(app)
            /\ pc' = LoopEnd(app')
            /\ UNCHANGED <<last_auto_refresh, purge_target>>
    /\ UNCHANGED <<now, prompted>>

\* main.rs:93-102, up to the draw of line 97
OnConfirmPurge ==
    /\ pc = "poll_event"
    /\ event' = "ConfirmPurge"
    /\ IF app.awaiting_purge_confirmation
       THEN LET r == begin_purge(NoRequests(app))
            IN /\ app' = r.self
               /\ purge_target' = r.ret
               /\ IF r.ret # <<>>
                  THEN /\ pc' = "purge_draw"
                       /\ UNCHANGED last_auto_refresh
                  ELSE /\ pc' = LoopEnd(app')
                       /\ last_auto_refresh' = now
       ELSE /\ app' = NoRequests(app)
            /\ pc' = LoopEnd(app')
            /\ UNCHANGED <<last_auto_refresh, purge_target>>
    /\ UNCHANGED <<now, prompted>>

\* main.rs:97  the draw that shows "Purging..."
PurgeDraw ==
    /\ pc = "purge_draw"
    /\ app' = NoRequests(app)
    /\ pc' = "execute_purge"
    /\ UNCHANGED <<last_auto_refresh, now, event, purge_target, prompted>>

\* main.rs:98-100
ExecutePurge ==
    /\ pc = "execute_purge"
    /\ \E purgeOk \in BOOLEAN :
       \E listed \in IF purgeOk THEN ListResults ELSE {NotListed}, detailsOk \in BOOLEAN :
          app' = execute_purge(NoRequests(app), purge_target[1].url, purge_target[1].name,
                                  purgeOk, listed, detailsOk, now)
    /\ last_auto_refresh' = now
    /\ purge_target' = <<>>
    /\ pc' = LoopEnd(app')
    /\ UNCHANGED <<now, event, prompted>>

\* main.rs:103-107
OnCancelPurge ==
    /\ pc = "poll_event"
    /\ event' = "CancelPurge"
    /\ IF app.awaiting_purge_confirmation
       THEN app' = cancel_purge(NoRequests(app))
       ELSE app' = NoRequests(app)
    /\ pc' = LoopEnd(app')
    /\ UNCHANGED <<last_auto_refresh, now, purge_target, prompted>>

\* time passes while the loop waits in poll_event (main.rs:60)
Tick ==
    /\ pc = "poll_event"
    /\ now + TickStep <= MaxTime
    /\ now' = now + TickStep
    /\ UNCHANGED <<app, last_auto_refresh, pc, event, purge_target, prompted>>

Next ==
    \/ InitialRefresh
    \/ Draw
    \/ DrawError
    \/ AutoRefresh
    \/ NoAutoRefresh
    \/ PollNone
    \/ PollError
    \/ OnQuit
    \/ OnRefresh
    \/ OnNextQueue
    \/ OnPreviousQueue
    \/ OnToggleFilter
    \/ OnPurgeQueue
    \/ OnConfirmPurge
    \/ PurgeDraw
    \/ ExecutePurge
    \/ OnCancelPurge
    \/ Tick

Spec == Init /\ [][Next]_vars

\* the same program, with the history variable prompted recorded
Next_History ==
    \/ InitialRefresh
    \/ Draw_History
    \/ DrawError
    \/ AutoRefresh
    \/ NoAutoRefresh
    \/ PollNone
    \/ PollError
    \/ OnQuit
    \/ OnRefresh
    \/ OnNextQueue
    \/ OnPreviousQueue
    \/ OnToggleFilter
    \/ OnPurgeQueue_History
    \/ OnConfirmPurge
    \/ PurgeDraw
    \/ ExecutePurge
    \/ OnCancelPurge
    \/ Tick

Spec_History == Init /\ [][Next_History]_vars

TypeOK ==
    /\ pc \in {"initial_refresh", "draw", "auto_refresh", "poll_event", "purge_draw",
               "execute_purge", "done", "failed"}
    /\ event \in AppEvents \cup {"None"}
    /\ now \in 0..MaxTime
    /\ app.selected_index \in Nat
    /\ prompted \in {<<>>} \cup {<<n>> : n \in Names}

----------------------------------------------------------------------------
(* Observations used by the properties *)

\* the controller state proper: every field of App but the client's call record
Controller(self) == NoRequests(self)

\* the calls made to the queue service by the step (a Tick makes none)
StepCalls == IF now' # now THEN <<>> ELSE app'.sqs_client

HasCall(calls, op) == \E i \in 1..Len(calls) : calls[i].op = op

CountCalls(calls, op) == Cardinality({i \in 1..Len(calls) : calls[i].op = op})

\* an event is taken from poll_event and dispatched by the step
Dispatches(e) == pc = "poll_event" /\ now' = now /\ event' = e

\* position of the queue with this url in a sequence of QueueInfo
PosOf(seq, url) == CHOOSE i \in 1..Len(seq) : seq[i].url = url

\* s is r in descending order of approximate_messages, ties in the order of r
StableSortedDesc(s, r) ==
    /\ Len(s) = Len(r)
    /\ {s[i] : i \in 1..Len(s)} = {r[i] : i \in 1..Len(r)}
    /\ \A i, j \in 1..Len(s) :
          i < j => \/ s[i].approximate_messages > s[j].approximate_messages
                   \/ /\ s[i].approximate_messages = s[j].approximate_messages
                      /\ PosOf(r, s[i].url) < PosOf(r, s[j].url)

----------------------------------------------------------------------------
(* Properties *)

\* C1: a purge call is issued only on the path entered by a ConfirmPurge that
\* was dispatched while awaiting_purge_confirmation was true, the flag is
\* raised only by a PurgeQueue event, and a ConfirmPurge or CancelPurge
\* dispatched while the flag is false changes no controller state and makes
\* no call to the service.
C1_PurgeOnlyOnConfirmedRequest ==
    [][/\ HasCall(StepCalls, "purge_queue") => pc = "execute_purge" /\ event = "ConfirmPurge"
       /\ pc' = "execute_purge" /\ pc # "execute_purge" => pc = "purge_draw"
       /\ pc' = "purge_draw" /\ pc # "purge_draw" =>
             Dispatches("ConfirmPurge") /\ app.awaiting_purge_confirmation
       /\ app'.awaiting_purge_confirmation /\ ~app.awaiting_purge_confirmation =>
             Dispatches("PurgeQueue")
       /\ (Dispatches("ConfirmPurge") \/ Dispatches("CancelPurge"))
            /\ ~app.awaiting_purge_confirmation =>
             /\ app' = Controller(app)
             /\ pc' = "draw"
             /\ UNCHANGED <<last_auto_refresh, purge_target>>]_vars

\* C1 witness: the purge call of a confirmed request has been made
C1_Witness ==
    /\ pc = "draw"
    /\ event = "ConfirmPurge"
    /\ HasCall(app.sqs_client, "purge_queue")

\* C2 (as claimed): while awaiting_purge_confirmation is true every
\* NextQueue, PreviousQueue, ToggleFilter and Refresh event is swallowed: it
\* changes no controller state and makes no call to the service.
C2_NavigationRefreshFilterSwallowed ==
    [][(\E e \in {"NextQueue", "PreviousQueue", "ToggleFilter", "Refresh"} : Dispatches(e))
         /\ app.awaiting_purge_confirmation
       => app' = Controller(app)]_vars

\* C3: queues is all_queues restricted, in order, to the queues with
\* approximate_messages > 0 when filter_non_empty is set, and is all_queues
\* otherwise.
C3_VisibleIsFilteredAll ==
    app.queues = IF app.filter_non_empty
                 THEN SelectSeq(app.all_queues, LAMBDA q : q.approximate_messages > 0)
                 ELSE app.all_queues

\* C3 witness: the filter is on and hides some but not all queues
C3_Witness ==
    /\ app.filter_non_empty
    /\ app.queues # <<>>
    /\ Len(app.queues) < Len(app.all_queues)

\* C4: whenever queues is non-empty, 0 <= selected_index < len(queues).
C4_SelectionInRange ==
    app.queues # <<>> => app.selected_index \in 0..(Len(app.queues) - 1)

\* C4 witness: ToggleFilter has shrunk the list and the selection is on its
\* first queue, while the details kept are those of the last, hidden queue
C4_Witness ==
    /\ pc = "draw"
    /\ event = "ToggleFilter"
    /\ app.filter_non_empty
    /\ app.queues # <<>>
    /\ Len(app.queues) < Len(app.all_queues)
    /\ app.selected_index = 0
    /\ app.selected_details = <<QueueDetails(app.all_queues[Len(app.all_queues)].url)>>

\* C5 (as claimed): whenever queues is empty, selected_index is 0.
C5_EmptyMeansIndexZero ==
    app.queues = <<>> => app.selected_index = 0

\* C6: all_queues is in descending order of approximate_messages, and after
\* a successful list_queues it is the returned sequence in that order with
\* queues of equal count in the order the service returned them.
C6_SortedDescStable ==
    /\ \A i, j \in 1..Len(app.all_queues) :
          i < j => app.all_queues[i].approximate_messages >= app.all_queues[j].approximate_messages
    /\ \A k \in 1..Len(app.sqs_client) :
          app.sqs_client[k].op = "list_queues" /\ app.sqs_client[k].ok =>
             StableSortedDesc(app.all_queues, app.sqs_client[k].queues)

\* C6 witness: the service returned two queues of equal count and a third
\* position or order that sorting has to respect
C6_Witness ==
    \E k \in 1..Len(app.sqs_client) :
       /\ app.sqs_client[k].op = "list_queues"
       /\ app.sqs_client[k].ok
       /\ Len(app.sqs_client[k].queues) >= 2
       /\ app.sqs_client[k].queues[1].approximate_messages
             = app.sqs_client[k].queues[2].approximate_messages
       /\ app.sqs_client[k].queues[1].name = "b"

\* C7: when list_queues fails in the initial, an automatic or a manual
\* refresh, only status_message changes (to the error) and the one call made
\* is that list_queues.
C7_FailedRefreshKeepsState ==
    [][(pc \in {"initial_refresh", "auto_refresh", "poll_event"}
          /\ HasCall(StepCalls, "list_queues")
          /\ ~StepCalls[1].ok)
       => /\ Len(StepCalls) = 1
          /\ Controller(app') =
                [Controller(app) EXCEPT !.status_message = Msg("Error: {}")]]_vars

\* C7 witness: a refresh has failed while queues were listed and one beyond
\* the first was selected
C7_Witness ==
    /\ Len(app.sqs_client) = 1
    /\ app.sqs_client[1].op = "list_queues"
    /\ ~app.sqs_client[1].ok
    /\ app.selected_index > 0
    /\ app.queues # <<>>
    /\ app.selected_details # <<>>

\* C8: a failed purge makes no list_queues call and leaves all_queues,
\* queues, selected_index and last_refresh unchanged; a succeeded purge is
\* followed in the same step, before the next poll, by one list_queues call.
C8_RefreshOnlyAfterSuccessfulPurge ==
    [][pc = "execute_purge" /\ now' = now =>
          /\ Len(StepCalls) >= 1
          /\ StepCalls[1].op = "purge_queue"
          /\ StepCalls[1].url = purge_target[1].url
          /\ ~StepCalls[1].ok =>
                /\ Len(StepCalls) = 1
                /\ app'.all_queues = app.all_queues
                /\ app'.queues = app.queues
                /\ app'.selected_index = app.selected_index
                /\ app'.last_refresh = app.last_refresh
          /\ StepCalls[1].ok =>
                /\ Len(StepCalls) >= 2
                /\ StepCalls[2].op = "list_queues"
                /\ CountCalls(StepCalls, "list_queues") = 1
                /\ pc' = "draw"]_vars

\* C8 witness: a purge has succeeded and the refresh after it has listed queues
C8_Witness ==
    /\ pc = "draw"
    /\ Len(app.sqs_client) >= 2
    /\ app.sqs_client[1].op = "purge_queue"
    /\ app.sqs_client[1].ok
    /\ app.sqs_client[2].op = "list_queues"
    /\ app.sqs_client[2].ok

\* C9: while purge_in_progress is true the loop is between begin_purge and
\* the end of execute_purge (or has stopped on a draw error): it is false at
\* every top-of-loop draw, auto-refresh check and poll; from begin_purge the
\* loop only draws and then executes the purge, and execute_purge ends with
\* purge_in_progress false whatever the service answered.
C9_PurgeRunsToCompletion ==
    /\ [](pc \in {"initial_refresh", "draw", "auto_refresh", "poll_event", "done"}
            => ~app.purge_in_progress)
    /\ [][/\ pc = "purge_draw" /\ now' = now => pc' \in {"execute_purge", "failed"}
          /\ pc = "execute_purge" /\ now' = now => pc' = "draw" /\ ~app'.purge_in_progress
          /\ app'.purge_in_progress /\ ~app.purge_in_progress => pc' = "purge_draw"]_vars

\* C9 witness: execute_purge has completed after the purge call failed
C9_Witness ==
    /\ pc = "draw"
    /\ event = "ConfirmPurge"
    /\ Len(app.sqs_client) = 1
    /\ app.sqs_client[1].op = "purge_queue"
    /\ ~app.sqs_client[1].ok
    /\ ~app.purge_in_progress

\* C10: a CancelPurge dispatched while awaiting_purge_confirmation is true
\* clears the flag, sets the cancellation message, makes no call to the
\* service and changes nothing else.
C10_CancelReturnsToIdle ==
    [][Dispatches("CancelPurge") /\ app.awaiting_purge_confirmation =>
          /\ app' = [Controller(app) EXCEPT !.awaiting_purge_confirmation = FALSE,
                                            !.status_message = Msg("Purge cancelled")]
          /\ ~app'.purge_in_progress
          /\ pc' = "draw"
          /\ UNCHANGED <<last_auto_refresh, purge_target>>]_vars

\* C10 witness: a pending confirmation has been cancelled
C10_Witness ==
    /\ pc = "draw"
    /\ event = "CancelPurge"
    /\ app.status_message = Msg("Purge cancelled")
    /\ ~app.awaiting_purge_confirmation
    /\ app.selected_index > 0

\* C11: a PurgeQueue event dispatched while a queue is selected and no
\* confirmation is pending sets awaiting_purge_confirmation and the prompt
\* naming the selected queue, and nothing else; dispatched while no queue is
\* selected (queues is empty) or while a confirmation is pending it changes
\* no field of the controller.
C11_RequestPurgeConfirmation ==
    [][Dispatches("PurgeQueue") =>
          /\ (selected_queue(app) = <<>>) = (app.queues = <<>>)
          /\ IF app.queues # <<>> /\ ~app.awaiting_purge_confirmation
             THEN app' = [Controller(app) EXCEPT
                            !.awaiting_purge_confirmation = TRUE,
                            !.status_message =
                                MsgName("Purge queue '{}'? Press Y to confirm, N to cancel",
                                        app.queues[app.selected_index + 1].name)]
             ELSE app' = Controller(app)]_vars

\* C11 witness: the confirmation of the purge of the second listed queue has
\* been requested
C11_Witness ==
    /\ pc = "draw"
    /\ event = "PurgeQueue"
    /\ app.awaiting_purge_confirmation
    /\ app.selected_index = 1
    /\ app.status_message.name = app.queues[2].name

\* C12: next_queue maps index i of a list of length n > 0 to (i + 1) mod n
\* and previous_queue maps it to (i - 1) mod n; on an empty list both change
\* nothing; neither changes another field.  The NextQueue and PreviousQueue
\* events move the selection so, and besides it touch only what the
\* following refresh_selected_details writes.
C12_CircularSelection ==
    /\ [](LET n == Len(app.queues)
              i == app.selected_index
          IN /\ next_queue(app) =
                   IF n > 0 THEN [app EXCEPT !.selected_index = (i + 1) % n] ELSE app
             /\ previous_queue(app) =
                   IF n > 0 THEN [app EXCEPT !.selected_index = (i + n - 1) % n] ELSE app)
    /\ [][(Dispatches("NextQueue") \/ Dispatches("PreviousQueue"))
            /\ ~app.awaiting_purge_confirmation =>
             LET n == Len(app.queues)
                 i == app.selected_index
                 d == IF event' = "NextQueue" THEN 1 ELSE n - 1
             IN /\ app'.selected_index = IF n > 0 THEN (i + d) % n ELSE i
                /\ [app' EXCEPT !.selected_index = i,
                                !.selected_details = app.selected_details,
                                !.status_message = app.status_message,
                                !.sqs_client = <<>>] = Controller(app)]_vars

\* C12 witness: NextQueue has wrapped from the last queue to the first
C12_Witness ==
    /\ pc = "draw"
    /\ event = "NextQueue"
    /\ Len(app.queues) = 2
    /\ app.selected_index = 0
    /\ app.sqs_client # <<>>
    /\ app.sqs_client[1].url = app.queues[1].url
    /\ app.selected_details = <<QueueDetails(app.queues[2].url)>>
    /\ ~app.sqs_client[1].ok

\* a call of the step was answered with an error
RemoteFailure(calls) == \E i \in 1..Len(calls) : ~calls[i].ok

\* C13 (as claimed): a step in which a call to the service fails goes on to
\* the next draw or poll, and the loop ends only by processing a Quit event.
C13_OnlyQuitEndsTheLoop ==
    [][/\ RemoteFailure(StepCalls) => pc' \in {"draw", "poll_event"}
       /\ pc' \in {"done", "failed"} => Dispatches("Quit")]_vars

\* C13 (amended): a step in which a call to the service fails goes on to the
\* next draw or poll; the loop ends normally only by processing a Quit event,
\* and otherwise only when terminal.draw or poll_event returns an error, in a
\* step that makes no call to the service.
C13_RemoteFailureNeverEndsTheLoop ==
    [][/\ RemoteFailure(StepCalls) => pc' \in {"draw", "poll_event"}
       /\ pc' = "done" => Dispatches("Quit")
       /\ pc' = "failed" => /\ pc \in {"draw", "purge_draw", "poll_event"}
                            /\ StepCalls = <<>>
                            /\ app' = Controller(app)]_vars

\* C13 witness: the purge succeeded, the list_queues of the refresh after it
\* failed, and the loop is at the next draw
C13_Witness ==
    /\ pc = "draw"
    /\ Len(app.sqs_client) = 2
    /\ app.sqs_client[1].op = "purge_queue"
    /\ app.sqs_client[1].ok
    /\ app.sqs_client[2].op = "list_queues"
    /\ ~app.sqs_client[2].ok

\* C14 (as claimed): at the auto-refresh check refresh_queues is invoked
\* exactly when now - last_refresh >= refresh_interval, last_refresh being
\* the controller's field (time of the last successful refresh), and the
\* baseline of the timer is reset when it is invoked.
C14_AutoRefreshByLastRefresh ==
    [][pc = "auto_refresh" /\ app.last_refresh # <<>> =>
          /\ HasCall(StepCalls, "list_queues")
                <=> now - app.last_refresh[1] >= refresh_interval
          /\ HasCall(StepCalls, "list_queues") => last_auto_refresh' = now]_vars

\* C14 (amended): at the auto-refresh check refresh_queues is invoked
\* exactly when now - last_auto_refresh >= refresh_interval, last_auto_refresh
\* being the loop's own baseline, and the baseline is reset to now when it is
\* invoked; otherwise the check changes nothing.
C14_AutoRefreshByBaseline ==
    [][pc = "auto_refresh" =>
          /\ HasCall(StepCalls, "list_queues")
                <=> now - last_auto_refresh >= refresh_interval
          /\ HasCall(StepCalls, "list_queues") =>
                /\ StepCalls[1].op = "list_queues"
                /\ CountCalls(StepCalls, "list_queues") = 1
                /\ last_auto_refresh' = now
          /\ ~HasCall(StepCalls, "list_queues") =>
                /\ app' = Controller(app)
                /\ last_auto_refresh' = last_auto_refresh
          /\ pc' = "poll_event"]_vars

\* C14 witness: the check has just passed without a refresh although the
\* last successful refresh is a full interval old, the baseline having been
\* reset since
C14_Witness ==
    /\ pc = "poll_event"
    /\ app.sqs_client = <<>>
    /\ last_auto_refresh = now
    /\ app.last_refresh # <<>>
    /\ now - app.last_refresh[1] >= refresh_interval

\* C15: list_queues is called only by the initial refresh, by the automatic
\* refresh when a full refresh_interval has elapsed since the baseline, by a
\* Refresh event and after a successful purge; every step that calls it sets
\* the baseline to the time of the call and the baseline never moves back.
\* So after a refresh that failed no list_queues call is made before a full
\* interval has elapsed since the attempt, unless one is triggered manually.
C15_NoRetry ==
    [][/\ HasCall(StepCalls, "list_queues") =>
             /\ last_auto_refresh' = now
             /\ \/ pc = "initial_refresh"
                \/ pc = "auto_refresh" /\ now - last_auto_refresh >= refresh_interval
                \/ Dispatches("Refresh")
                \/ /\ pc = "execute_purge"
                   /\ StepCalls[1].op = "purge_queue"
                   /\ StepCalls[1].ok
       /\ last_auto_refresh' >= last_auto_refresh
       /\ last_auto_refresh' <= now]_vars

\* C15 witness: the last refresh failed, time has passed since the attempt
\* but less than the interval, and the auto-refresh check has made no call
C15_Witness ==
    /\ pc = "poll_event"
    /\ app.sqs_client = <<>>
    /\ app.status_message = Msg("Error: {}")
    /\ now > last_auto_refresh
    /\ now - last_auto_refresh < refresh_interval

\* C16: a Quit event, in whatever state it is polled, ends the loop in that
\* step: should_quit is set and nothing else changes, no call to the service
\* is made, and no step follows the end of the loop.
C16_QuitEndsTheLoop ==
    /\ [](pc = "done" => /\ app.should_quit
                         /\ event = "Quit"
                         /\ app.sqs_client = <<>>
                         /\ ~app.purge_in_progress)
    /\ [][/\ Dispatches("Quit") =>
                /\ pc' = "done"
                /\ app' = [Controller(app) EXCEPT !.should_quit = TRUE]
                /\ UNCHANGED <<last_auto_refresh, purge_target>>
          /\ pc # "done"]_vars

\* C16 witness: the loop has ended on a Quit polled while a confirmation was
\* pending
C16_Witness ==
    /\ pc = "done"
    /\ app.awaiting_purge_confirmation

\* C17: when the selected queue has approximate_messages > 0, a ToggleFilter
\* event (turning the filter on or off) leaves the selection on that queue.
C17_ToggleKeepsNonEmptySelection ==
    [][(/\ Dispatches("ToggleFilter")
        /\ ~app.awaiting_purge_confirmation
        /\ selected_queue(app) # <<>>
        /\ selected_queue(app)[1].approximate_messages > 0)
       => /\ app'.filter_non_empty = ~app.filter_non_empty
          /\ app'.selected_index < Len(app'.queues)
          /\ app'.queues[app'.selected_index + 1] = app.queues[app.selected_index + 1]]_vars

\* C17 witness: the filter has been turned on with the second queue
\* selected, which is not empty
C17_Witness ==
    /\ pc = "draw"
    /\ event = "ToggleFilter"
    /\ app.filter_non_empty
    /\ app.selected_index = 1
    /\ Len(app.queues) = 2

\* C18 (as claimed): the queue handed to the purge call is the queue that was
\* named in the confirmation prompt when the PurgeQueue event was dispatched
\* (under Spec_History, which records that name in prompted).
C18_PurgesThePromptedQueue ==
    pc \in {"purge_draw", "execute_purge"} /\ prompted # <<>> =>
       /\ purge_target # <<>>
       /\ purge_target[1].name = prompted[1]

\* begin_purge is invoked by the step and finds no queue selected
BeginsPurgeOfNothing ==
    /\ Dispatches("ConfirmPurge")
    /\ app.awaiting_purge_confirmation
    /\ app.queues = <<>>

\* C19 (as claimed): when begin_purge is invoked while no queue is selected it
\* returns nothing and no field of the controller changes, purge_in_progress
\* stays false and no purge call is issued.
C19_BeginPurgeOfNothingIsNoOp ==
    [][BeginsPurgeOfNothing =>
          /\ purge_target' = <<>>
          /\ Controller(app') = Controller(app)
          /\ ~app'.purge_in_progress
          /\ ~HasCall(StepCalls, "purge_queue")
          /\ pc' # "purge_draw"]_vars

\* C19 (amended): when begin_purge is invoked while no queue is selected it
\* returns nothing, clears awaiting_purge_confirmation and changes no other
\* field of the controller; purge_in_progress stays false, no call is made to
\* the service and the loop goes on to its next iteration.
C19_BeginPurgeOfNothingOnlyClearsFlag ==
    [][BeginsPurgeOfNothing =>
          /\ purge_target' = <<>>
          /\ Controller(app') =
                [Controller(app) EXCEPT !.awaiting_purge_confirmation = FALSE]
          /\ ~app'.purge_in_progress
          /\ StepCalls = <<>>
          /\ pc' = "draw"]_vars

\* C19 witness: a ConfirmPurge has answered a prompt after a refresh at an
\* earlier time emptied the list, and begin_purge returned None: the arm has
\* reset last_auto_refresh (main.rs:100) in a step that refreshed nothing
C19_Witness ==
    /\ pc = "draw"
    /\ event = "ConfirmPurge"
    /\ app.queues = <<>>
    /\ app.sqs_client = <<>>
    /\ purge_target = <<>>
    /\ ~app.awaiting_purge_confirmation
    /\ ~app.purge_in_progress
    /\ app.status_message.text = "Connected to AWS | {} queues found"
    /\ app.last_refresh # <<now>>
    /\ last_auto_refresh = now

\* C20: in a step whose list_queues call succeeds, if the recomputed queues
\* is non-empty exactly one get_queue_details call follows, for the queue at
\* the resulting selected_index, which is in range; if queues is empty no
\* get_queue_details call is made; in both cases last_refresh is the current
\* time.
C20_SuccessfulRefreshFetchesSelected ==
    [][\A i \in 1..Len(StepCalls) :
          StepCalls[i].op = "list_queues" /\ StepCalls[i].ok =>
             /\ app'.last_refresh = <<now>>
             /\ CountCalls(StepCalls, "get_queue_details") =
                   IF app'.queues # <<>> THEN 1 ELSE 0
             /\ app'.queues # <<>> =>
                   /\ app'.selected_index < Len(app'.queues)
                   /\ i < Len(StepCalls)
                   /\ StepCalls[i + 1].op = "get_queue_details"
                   /\ StepCalls[i + 1].url =
                         app'.queues[app'.selected_index + 1].url]_vars

\* C20 witness: a Refresh at a later time listed two queues of which the
\* filter keeps one, and fetched the details of that one
C20_Witness ==
    /\ pc = "draw"
    /\ event = "Refresh"
    /\ now > 0
    /\ app.last_refresh = <<now>>
    /\ Len(app.sqs_client) = 2
    /\ app.sqs_client[1].op = "list_queues"
    /\ app.sqs_client[1].ok
    /\ Len(app.sqs_client[1].queues) = 2
    /\ Len(app.queues) = 1
    /\ app.selected_index = 0
    /\ app.sqs_client[2].op = "get_queue_details"
    /\ app.sqs_client[2].url = app.queues[1].url

\* the status message set by begin_purge for the queue it returned
ShowsPurging(self, target) ==
    /\ self.purge_in_progress
    /\ target # <<>>
    /\ self.status_message = MsgName("Purging queue '{}'...", target[1].name)

\* C21: on a ConfirmPurge that begins a purge, the draw of main.rs:97 comes
\* after begin_purge and before the purge call: the purge call is made only
\* by the step that follows that draw, the draw is entered only from a
\* ConfirmPurge whose begin_purge returned a queue, and what it renders has
\* purge_in_progress true and the "Purging queue" message, with no purge call
\* made yet.
C21_DrawBetweenBeginAndPurgeCall ==
    /\ [](pc \in {"purge_draw", "execute_purge"} =>
            /\ ShowsPurging(app, purge_target)
            /\ ~HasCall(app.sqs_client, "purge_queue"))
    /\ [][/\ HasCall(StepCalls, "purge_queue") => pc = "execute_purge"
          /\ pc' = "execute_purge" /\ pc # "execute_purge" =>
                /\ pc = "purge_draw"
                /\ Controller(app') = Controller(app)
                /\ StepCalls = <<>>
                /\ purge_target' = purge_target
          /\ pc' = "purge_draw" /\ pc # "purge_draw" =>
                /\ Dispatches("ConfirmPurge")
                /\ app.awaiting_purge_confirmation
                /\ ~app.purge_in_progress
                /\ StepCalls = <<>>]_vars

\* C21 witness: the draw has shown the purge in progress and the purge call
\* has not been made yet
C21_Witness ==
    /\ pc = "execute_purge"
    /\ event = "ConfirmPurge"
    /\ ShowsPurging(app, purge_target)
    /\ app.sqs_client = <<>>
    /\ purge_target[1].url = app.queues[app.selected_index + 1].url

\* C22 (as claimed): at every top-of-loop draw, selected_details, when
\* present, is the detail of the queue at selected_index, and it is absent
\* when no queue is selected.
C22_DetailIsOfSelectedQueue ==
    pc = "draw" /\ app.selected_details # <<>> =>
       /\ selected_queue(app) # <<>>
       /\ app.selected_details[1] = QueueDetails(selected_queue(app)[1].url)

\* the state of the purge protocol (app.rs:17-18)
PurgeState(self) ==
    IF self.purge_in_progress THEN "Purging"
    ELSE IF self.awaiting_purge_confirmation THEN "AwaitingConfirmation"
    ELSE "Idle"

\* C23: awaiting_purge_confirmation and purge_in_progress are never both
\* true, and purge_in_progress becomes true only in a step that starts with
\* awaiting_purge_confirmation true (and clears it): Purging is entered only
\* from AwaitingConfirmation.
C23_PurgeProtocolStates ==
    /\ [](~(app.awaiting_purge_confirmation /\ app.purge_in_progress))
    /\ [][PurgeState(app') = "Purging" /\ PurgeState(app) # "Purging" =>
             /\ PurgeState(app) = "AwaitingConfirmation"
             /\ ~app'.awaiting_purge_confirmation
             /\ Dispatches("ConfirmPurge")]_vars

\* C23 witness: begin_purge has just moved the protocol from
\* AwaitingConfirmation to Purging
C23_Witness ==
    /\ pc = "purge_draw"
    /\ event = "ConfirmPurge"
    /\ PurgeState(app) = "Purging"
    /\ ~app.awaiting_purge_confirmation
    /\ app.selected_index = 1

\* C24 (as claimed): at every top-of-loop draw made while
\* awaiting_purge_confirmation is true, status_message is the confirmation
\* prompt, naming the queue that a ConfirmPurge would purge.
C24_PromptShownWhilePending ==
    pc = "draw" /\ app.awaiting_purge_confirmation =>
       /\ selected_queue(app) # <<>>
       /\ app.status_message =
             MsgName("Purge queue '{}'? Press Y to confirm, N to cancel",
                     selected_queue(app)[1].name)
====
